---------------------------- MODULE Spec2Model ----------------------------
(***************************************************************************)
(* Model of src/src/mcp-server/tools/monitor_script_logs.py: the log       *)
(* monitor (source resolution, line parsing, filtering, merge, tail).      *)
(*                                                                         *)
(* Text is modelled as Python models it: a str is a sequence of code       *)
(* points (naturals), compared lexicographically by code point.  A naive   *)
(* datetime is the tuple <<year, month, day, hour, minute, second,         *)
(* microsecond>>, compared field by field as datetime compares.            *)
(***************************************************************************)
EXTENDS Integers, Sequences, FiniteSets, TLC

(***************************************************************************)
(* str                                                                     *)
(***************************************************************************)

\* Code points of the characters the patterns and formats name.
IsDigit(c) == c >= 48 /\ c <= 57

\* str.strip() with no argument strips whitespace; the ASCII whitespace
\* characters are enough for log text: \t \n \v \f \r, FS..US and space.
IsSpace(c) == c \in {9, 10, 11, 12, 13, 28, 29, 30, 31, 32}

\* s < t on str: lexicographic by code point, a proper prefix is smaller.
RECURSIVE StrLess(_, _)
StrLess(s, t) ==
    IF t = <<>> THEN FALSE
    ELSE IF s = <<>> THEN TRUE
    ELSE IF Head(s) # Head(t) THEN Head(s) < Head(t)
    ELSE StrLess(Tail(s), Tail(t))

\* t occurs in s at index i (1-based).
OccursAt(t, s, i) ==
    /\ i >= 1
    /\ i + Len(t) - 1 <= Len(s)
    /\ \A k \in 1..Len(t) : s[i + k - 1] = t[k]

\* `t in s` on str.
Contains(s, t) == \E i \in 1..(Len(s) + 1) : OccursAt(t, s, i)

\* s.startswith(t), s.endswith(t)
StartsWith(s, t) == OccursAt(t, s, 1)
EndsWith(s, t) == Len(t) <= Len(s) /\ OccursAt(t, s, Len(s) - Len(t) + 1)

RECURSIVE LStrip(_)
LStrip(s) == IF s # <<>> /\ IsSpace(Head(s)) THEN LStrip(Tail(s)) ELSE s

RECURSIVE RStrip(_)
RStrip(s) ==
    IF s # <<>> /\ IsSpace(s[Len(s)]) THEN RStrip(SubSeq(s, 1, Len(s) - 1)) ELSE s

\* str.strip()
Strip(s) == RStrip(LStrip(s))

\* A decimal numeral of exactly w digits (format specs %02d, %04d, %06d).
RECURSIVE Digits(_, _)
Digits(n, w) == IF w = 0 THEN <<>> ELSE Digits(n \div 10, w - 1) \o <<48 + (n % 10)>>

\* The value of a run of decimal digits.
RECURSIVE Num(_)
Num(s) == IF s = <<>> THEN 0 ELSE 10 * Num(SubSeq(s, 1, Len(s) - 1)) + (s[Len(s)] - 48)

(***************************************************************************)
(* datetime                                                                *)
(***************************************************************************)

IsLeap(y) == (y % 4 = 0 /\ y % 100 # 0) \/ y % 400 = 0

DaysInMonth(y, m) ==
    IF m = 2 THEN (IF IsLeap(y) THEN 29 ELSE 28)
    ELSE IF m \in {4, 6, 9, 11} THEN 30 ELSE 31

\* The field ranges the datetime constructor enforces (ValueError otherwise).
ValidDateTime(d) ==
    /\ d[1] >= 1 /\ d[1] <= 9999
    /\ d[2] >= 1 /\ d[2] <= 12
    /\ d[3] >= 1 /\ d[3] <= DaysInMonth(d[1], d[2])
    /\ d[4] >= 0 /\ d[4] <= 23
    /\ d[5] >= 0 /\ d[5] <= 59
    /\ d[6] >= 0 /\ d[6] <= 59
    /\ d[7] >= 0 /\ d[7] <= 999999

\* a < b on naive datetimes.
RECURSIVE TupleLess(_, _)
TupleLess(a, b) ==
    IF a = <<>> \/ b = <<>> THEN FALSE
    ELSE IF Head(a) # Head(b) THEN Head(a) < Head(b)
    ELSE TupleLess(Tail(a), Tail(b))

DtLess(a, b) == TupleLess(a, b)

\* dt - timedelta(minutes=1)
MinusOneMinute(d) ==
    IF d[5] > 0 THEN [d EXCEPT ![5] = d[5] - 1]
    ELSE IF d[4] > 0 THEN [d EXCEPT ![4] = d[4] - 1, ![5] = 59]
    ELSE IF d[3] > 1 THEN [d EXCEPT ![3] = d[3] - 1, ![4] = 23, ![5] = 59]
    ELSE IF d[2] > 1
         THEN [d EXCEPT ![2] = d[2] - 1, ![3] = DaysInMonth(d[1], d[2] - 1),
                        ![4] = 23, ![5] = 59]
    ELSE [d EXCEPT ![1] = d[1] - 1, ![2] = 12, ![3] = 31, ![4] = 23, ![5] = 59]

\* dt - timedelta(minutes=n), n >= 0
RECURSIVE MinusMinutes(_, _)
MinusMinutes(d, n) == IF n = 0 THEN d ELSE MinusMinutes(MinusOneMinute(d), n - 1)

\* str(date): "YYYY-MM-DD"
DateStr(d) == Digits(d[1], 4) \o <<45>> \o Digits(d[2], 2) \o <<45>> \o Digits(d[3], 2)

\* "HH:MM:SS"
TimeStr(d) == Digits(d[4], 2) \o <<58>> \o Digits(d[5], 2) \o <<58>> \o Digits(d[6], 2)

\* datetime.isoformat(): "YYYY-MM-DDTHH:MM:SS", with ".ffffff" when the
\* microsecond is not zero.
IsoFormat(d) ==
    DateStr(d) \o <<84>> \o TimeStr(d)
        \o (IF d[7] = 0 THEN <<>> ELSE <<46>> \o Digits(d[7], 6))

\* datetime.fromisoformat() on the strings isoformat() writes; <<>> stands
\* for the ValueError raised on anything else.
FromIsoFormat(s) ==
    IF /\ Len(s) \in {19, 26}
       /\ s[5] = 45 /\ s[8] = 45 /\ s[11] = 84 /\ s[14] = 58 /\ s[17] = 58
       /\ \A i \in {1, 2, 3, 4, 6, 7, 9, 10, 12, 13, 15, 16, 18, 19} : IsDigit(s[i])
       /\ (Len(s) = 26 => s[20] = 46 /\ \A i \in 21..26 : IsDigit(s[i]))
    THEN LET d == << Num(SubSeq(s, 1, 4)), Num(SubSeq(s, 6, 7)), Num(SubSeq(s, 9, 10)),
                     Num(SubSeq(s, 12, 13)), Num(SubSeq(s, 15, 16)),
                     Num(SubSeq(s, 18, 19)),
                     IF Len(s) = 26 THEN Num(SubSeq(s, 21, 26)) ELSE 0 >>
         IN IF ValidDateTime(d) THEN d ELSE <<>>
    ELSE <<>>

\* A run of 1..w digits at the front of s, as %f and %m take them (greedy).
RECURSIVE DigitRun(_, _)
DigitRun(s, w) ==
    IF w = 0 \/ s = <<>> \/ ~IsDigit(Head(s)) THEN <<>>
    ELSE <<Head(s)>> \o DigitRun(Tail(s), w - 1)

\* datetime.strptime(s, "%Y-%m-%d %H:%M:%S.%f") when frac, and
\* datetime.strptime(s, "%Y-%m-%d %H:%M:%S") otherwise, on text of the shape
\* the timestamp patterns deliver (fixed-width fields); <<>> stands for the
\* ValueError.  %f reads up to six digits and pads on the right.
Strptime(s, frac) ==
    IF /\ Len(s) >= 19
       /\ s[5] = 45 /\ s[8] = 45 /\ s[11] = 32 /\ s[14] = 58 /\ s[17] = 58
       /\ \A i \in {1, 2, 3, 4, 6, 7, 9, 10, 12, 13, 15, 16, 18, 19} : IsDigit(s[i])
       /\ IF frac
          THEN /\ Len(s) >= 21 /\ s[20] = 46
               /\ LET f == DigitRun(SubSeq(s, 21, Len(s)), 6)
                  IN Len(f) >= 1 /\ Len(s) = 20 + Len(f)
          ELSE Len(s) = 19
    THEN LET f == IF frac THEN SubSeq(s, 21, Len(s)) ELSE <<>>
             us == IF frac THEN Num(f \o [i \in 1..(6 - Len(f)) |-> 48]) ELSE 0
             d == << Num(SubSeq(s, 1, 4)), Num(SubSeq(s, 6, 7)), Num(SubSeq(s, 9, 10)),
                     Num(SubSeq(s, 12, 13)), Num(SubSeq(s, 15, 16)),
                     Num(SubSeq(s, 18, 19)), us >>
         IN IF ValidDateTime(d) THEN d ELSE <<>>
    ELSE <<>>

(***************************************************************************)
(* re: the patterns of the module are fixed-width, so a pattern is the     *)
(* sequence of its positions, 0 standing for \d and any other number for   *)
(* that literal character.                                                 *)
(***************************************************************************)

PatMatchAt(pat, s, i) ==
    /\ i >= 1
    /\ i + Len(pat) - 1 <= Len(s)
    /\ \A k \in 1..Len(pat) :
          IF pat[k] = 0 THEN IsDigit(s[i + k - 1]) ELSE s[i + k - 1] = pat[k]

\* re.search(pat, s): the start of the leftmost match, 0 for None.
ReSearch(pat, s) ==
    LET hits == {i \in 1..Len(s) : PatMatchAt(pat, s, i)}
    IN IF hits = {} THEN 0 ELSE CHOOSE i \in hits : \A j \in hits : i <= j

\* re.sub(pat, '', s): every non-overlapping match removed, left to right.
RECURSIVE ReSubEmpty(_, _)
ReSubEmpty(pat, s) ==
    LET i == ReSearch(pat, s)
    IN IF i = 0 THEN s
       ELSE SubSeq(s, 1, i - 1) \o ReSubEmpty(pat, SubSeq(s, i + Len(pat), Len(s)))

\* [2025-07-13 21:45:32.123]
PatDateTimeFrac ==
    <<91, 0, 0, 0, 0, 45, 0, 0, 45, 0, 0, 32, 0, 0, 58, 0, 0, 58, 0, 0, 46, 0, 0, 0, 93>>
\* [2025-07-13 21:45:32]
PatDateTime ==
    <<91, 0, 0, 0, 0, 45, 0, 0, 45, 0, 0, 32, 0, 0, 58, 0, 0, 58, 0, 0, 93>>
\* [21:45:32.123]
PatTimeFrac == <<91, 0, 0, 58, 0, 0, 58, 0, 0, 46, 0, 0, 0, 93>>
\* [21:45:32]
PatTime == <<91, 0, 0, 58, 0, 0, 58, 0, 0, 93>>

timestamp_patterns == <<PatDateTimeFrac, PatDateTime, PatTimeFrac, PatTime>>

\* The loop going on to the next pattern when the matched text is no datetime.
FirstConvertiblePattern(line) ==
    LET Text(p) == SubSeq(line, ReSearch(timestamp_patterns[p], line) + 1,
                          ReSearch(timestamp_patterns[p], line)
                              + Len(timestamp_patterns[p]) - 2)
        Full(p) == IF Len(Text(p)) > 10 THEN Text(p)
                   ELSE <<50, 48, 50, 54, 45, 49, 49, 45, 48, 52, 32>> \o Text(p)
        hits == {p \in 1..Len(timestamp_patterns) :
                    /\ ReSearch(timestamp_patterns[p], line) # 0
                    /\ Strptime(Full(p), Contains(Text(p), <<46>>)) # <<>>}
    IN IF hits = {} THEN 0 ELSE CHOOSE p \in hits : \A q \in hits : p <= q

\* The pattern whose match starts leftmost in the line, whatever its place
\* in the list.
FirstMatchingPatternLeftmost(line) ==
    LET hits == {p \in 1..Len(timestamp_patterns) :
                    ReSearch(timestamp_patterns[p], line) # 0}
    IN IF hits = {} THEN 0
       ELSE CHOOSE p \in hits :
                \A q \in hits :
                    \/ ReSearch(timestamp_patterns[p], line)
                          < ReSearch(timestamp_patterns[q], line)
                    \/ /\ ReSearch(timestamp_patterns[p], line)
                             = ReSearch(timestamp_patterns[q], line)
                       /\ p <= q

\* The index of the first pattern of the list that matches somewhere in the
\* line (the for loop with its break), 0 when none does.
FirstMatchingPattern(line) ==
    LET hits == {p \in 1..Len(timestamp_patterns) :
                    ReSearch(timestamp_patterns[p], line) # 0}
    IN IF hits = {} THEN 0 ELSE CHOOSE p \in hits : \A q \in hits : p <= q

\* match.group(1) of that pattern: the text between the brackets.
MatchGroup1(line) ==
    LET p == FirstMatchingPattern(line)
        pat == timestamp_patterns[p]
        i == ReSearch(pat, line)
    IN IF p = 0 THEN <<>> ELSE SubSeq(line, i + 1, i + Len(pat) - 2)

\* The try block: the matched text converted to a datetime and written with
\* isoformat(); <<>> (the initial "") when strptime raises.  `today` is the
\* datetime.now() read for a time-only match.
ResolveTimestamp(g, today) ==
    LET frac == Contains(g, <<46>>)
        text == IF Len(g) > 10 THEN g ELSE DateStr(today) \o <<32>> \o g
        parsed_time == Strptime(text, frac)
    IN IF parsed_time = <<>> THEN <<>> ELSE IsoFormat(parsed_time)

\* str.lower() on ASCII letters.
LowerChar(c) == IF c >= 65 /\ c <= 90 THEN c + 32 ELSE c
Lower(s) == [i \in 1..Len(s) |-> LowerChar(s[i])]

\* The level names.
LvInfo == <<105, 110, 102, 111>>                     \* "info"
LvError == <<101, 114, 114, 111, 114>>               \* "error"
LvWarning == <<119, 97, 114, 110, 105, 110, 103>>    \* "warning"
LvSuccess == <<115, 117, 99, 99, 101, 115, 115>>     \* "success"
LvAll == <<97, 108, 108>>                            \* "all"

\* The indicator lists: cross mark, ERROR, Failed, Exception
ErrorIndicators ==
    { <<10060>>, <<69, 82, 82, 79, 82>>, <<70, 97, 105, 108, 101, 100>>,
      <<69, 120, 99, 101, 112, 116, 105, 111, 110>> }
\* warning sign + variation selector, WARN, Warning
WarningIndicators ==
    { <<9888, 65039>>, <<87, 65, 82, 78>>, <<87, 97, 114, 110, 105, 110, 103>> }
\* check mark, SUCCESS, completed, fire, floppy disk
SuccessIndicators ==
    { <<9989>>, <<83, 85, 67, 67, 69, 83, 83>>,
      <<99, 111, 109, 112, 108, 101, 116, 101, 100>>, <<128293>>, <<128190>> }
\* magnifying glass, arrows, bar chart, INFO
InfoIndicators == { <<128269>>, <<128260>>, <<128202>>, <<73, 78, 70, 79>> }

AnyIn(indicators, line) == \E ind \in indicators : Contains(line, ind)

\* The chain run on line_lower, the lowered line of line 206.
LevelBranchLowered(line) ==
    IF AnyIn(ErrorIndicators, Lower(line)) THEN 1
    ELSE IF AnyIn(WarningIndicators, Lower(line)) THEN 2
    ELSE IF AnyIn(SuccessIndicators, Lower(line)) THEN 3
    ELSE IF AnyIn(InfoIndicators, Lower(line)) THEN 4
    ELSE 0

\* The chain with the warning test put before the error test.
LevelBranchWarningFirst(line) ==
    IF AnyIn(WarningIndicators, line) THEN 2
    ELSE IF AnyIn(ErrorIndicators, line) THEN 1
    ELSE IF AnyIn(SuccessIndicators, line) THEN 3
    ELSE IF AnyIn(InfoIndicators, line) THEN 4
    ELSE 0

\* The if/elif chain: the number of the branch taken, 0 when none is.
LevelBranch(line) ==
    IF AnyIn(ErrorIndicators, line) THEN 1
    ELSE IF AnyIn(WarningIndicators, line) THEN 2
    ELSE IF AnyIn(SuccessIndicators, line) THEN 3
    ELSE IF AnyIn(InfoIndicators, line) THEN 4
    ELSE 0

\* entry["level"] after the chain ("info" is the initial value).
ClassifyLevel(line) ==
    LET b == LevelBranch(line)
    IN IF b = 1 THEN LvError
       ELSE IF b = 2 THEN LvWarning
       ELSE IF b = 3 THEN LvSuccess
       ELSE LvInfo

\* The character class of emoji_pattern.
IsEmoji(c) ==
    \/ c >= 128512 /\ c <= 128591
    \/ c >= 127744 /\ c <= 128511
    \/ c >= 128640 /\ c <= 128767
    \/ c >= 127462 /\ c <= 127487
    \/ c >= 9728 /\ c <= 10175

\* re.findall(emoji_pattern, line)
FindEmojis(line) == SelectSeq(line, IsEmoji)

\* The three prefixes, as (level tag, source tag), both matched ignoring case:
\* [INFO] [Tycoon], [ERROR] [Tycoon], [WARN] [Tycoon]
TagTycoon == <<91, 116, 121, 99, 111, 111, 110, 93>>
prefixes_to_remove ==
    << <<91, 105, 110, 102, 111, 93>>, <<91, 101, 114, 114, 111, 114, 93>>,
       <<91, 119, 97, 114, 110, 93>> >>

\* re.sub(r'^\[LEVEL\]\s*\[Tycoon\]\s*', '', s, flags=re.IGNORECASE)
RemovePrefix(tag, s) ==
    IF ~StartsWith(Lower(s), tag) THEN s
    ELSE LET rest == LStrip(SubSeq(s, Len(tag) + 1, Len(s)))
         IN IF StartsWith(Lower(rest), TagTycoon)
            THEN LStrip(SubSeq(rest, Len(TagTycoon) + 1, Len(rest)))
            ELSE s

RECURSIVE StripTimestamps(_, _)
StripTimestamps(message, p) ==
    IF p > Len(timestamp_patterns) THEN message
    ELSE StripTimestamps(Strip(ReSubEmpty(timestamp_patterns[p], message)), p + 1)

RECURSIVE StripPrefixes(_, _)
StripPrefixes(message, p) ==
    IF p > Len(prefixes_to_remove) THEN message
    ELSE StripPrefixes(Strip(RemovePrefix(prefixes_to_remove[p], message)), p + 1)

\* No clean-up: the message stays the line.
CleanMessageRaw(line) == line

\* The message clean-up of _parse_log_line.
CleanMessage(line) == StripPrefixes(StripTimestamps(line, 1), 1)

\* _parse_log_line(line, source, line_num); `today` is what datetime.now()
\* returns while the line is parsed.
parse_log_line(line, source, line_num, today) ==
    LET g == MatchGroup1(line)
    IN [ source |-> source,
         line_number |-> line_num,
         raw_line |-> line,
         timestamp |-> g,
         parsed_timestamp |->
             IF FirstMatchingPattern(line) = 0 THEN <<>> ELSE ResolveTimestamp(g, today),
         level |-> ClassifyLevel(line),
         message |-> CleanMessage(line),
         emojis |-> FindEmojis(line),
         contains_error |-> LevelBranch(line) = 1,
         contains_success |-> LevelBranch(line) = 3 ]

(***************************************************************************)
(* Text constants of the module                                            *)
(***************************************************************************)

\* os.path.expandvars("%APPDATA%") joined with "Tycoon": '%APPDATA%\Tycoon'
tycoon_dir == <<37, 65, 80, 80, 68, 65, 84, 65, 37, 92, 84, 121, 99, 111, 111, 110>>
\* 'C:\RevitAI'
workspace_dir == <<67, 58, 92, 82, 101, 118, 105, 116, 65, 73>>
\* 'ReNumber_Debug.log'
RenumberName ==
    <<82, 101, 78, 117, 109, 98, 101, 114, 95, 68, 101, 98, 117, 103, 46, 108, 111, 103>>
\* 'Tycoon_'
TycoonPrefix == <<84, 121, 99, 111, 111, 110, 95>>
\* '.log'
LogSuffix == <<46, 108, 111, 103>>
\* 'Error reading log file '
MsgReadError ==
    <<69, 114, 114, 111, 114, 32, 114, 101, 97, 100, 105, 110, 103, 32, 108, 111, 103,
      32, 102, 105, 108, 101, 32>>
\* 'Error monitoring logs: '
MsgMonitorError ==
    <<69, 114, 114, 111, 114, 32, 109, 111, 110, 105, 116, 111, 114, 105, 110, 103, 32,
      108, 111, 103, 115, 58, 32>>
\* 'No log files found. Make sure Tycoon is running and scripts have been executed.'
MsgNoLogs ==
    <<78, 111, 32, 108, 111, 103, 32, 102, 105, 108, 101, 115, 32, 102, 111, 117, 110,
      100, 46, 32, 77, 97, 107, 101, 32, 115, 117, 114, 101, 32, 84, 121, 99, 111, 111,
      110, 32, 105, 115, 32, 114, 117, 110, 110, 105, 110, 103, 32, 97, 110, 100, 32,
      115, 99, 114, 105, 112, 116, 115, 32, 104, 97, 118, 101, 32, 98, 101, 101, 110,
      32, 101, 120, 101, 99, 117, 116, 101, 100, 46>>
\* 'Last ', ' minutes', 'All available'
TimeLast == <<76, 97, 115, 116, 32>>
TimeMinutes == <<32, 109, 105, 110, 117, 116, 101, 115>>
TimeAll == <<65, 108, 108, 32, 97, 118, 97, 105, 108, 97, 98, 108, 101>>

\* os.path.join(dir, name) on the host's platform (Windows separator).
PathJoin(dir, name) == dir \o <<92>> \o name

\* repr() of a path: quoted, backslashes doubled.
RECURSIVE EscapeBackslash(_)
EscapeBackslash(s) ==
    IF s = <<>> THEN <<>>
    ELSE (IF Head(s) = 92 THEN <<92, 92>> ELSE <<Head(s)>>) \o EscapeBackslash(Tail(s))
Repr(s) == <<39>> \o EscapeBackslash(s) \o <<39>>

\* str(e) of the OSError raised for a missing path, and for one that cannot
\* be opened: '[Errno 2] No such file or directory: ' / '[Errno 13]
\* Permission denied: ' followed by repr(path).
ErrNoEnt(path) ==
    <<91, 69, 114, 114, 110, 111, 32, 50, 93, 32, 78, 111, 32, 115, 117, 99, 104, 32,
      102, 105, 108, 101, 32, 111, 114, 32, 100, 105, 114, 101, 99, 116, 111, 114, 121,
      58, 32>> \o Repr(path)
ErrAccess(path) ==
    <<91, 69, 114, 114, 110, 111, 32, 49, 51, 93, 32, 80, 101, 114, 109, 105, 115, 115,
      105, 111, 110, 32, 100, 101, 110, 105, 101, 100, 58, 32>> \o Repr(path)

\* str(n) for n >= 0
RECURSIVE IntStr(_)
IntStr(n) == IF n < 10 THEN <<48 + n>> ELSE IntStr(n \div 10) \o <<48 + (n % 10)>>

(***************************************************************************)
(* list operations                                                         *)
(***************************************************************************)

\* seq[k:] for any integer k (a negative k counts from the end).
SliceFrom(seq, k) ==
    LET start == IF k >= 0 THEN k ELSE (IF Len(seq) + k < 0 THEN 0 ELSE Len(seq) + k)
    IN SubSeq(seq, start + 1, Len(seq))

\* The limit keeping the first n elements, seq[:n].
TailLimitHead(seq, n) == IF Len(seq) > n THEN SubSeq(seq, 1, n) ELSE seq

\* if len(seq) > n: seq = seq[-n:]
TailLimit(seq, n) == IF Len(seq) > n THEN SliceFrom(seq, 0 - n) ELSE seq

\* dict.get(key, default)
Get(e, key, default) == IF key \in DOMAIN e THEN e[key] ELSE default

\* The sort key of line 81.
SortKey(e) == Get(e, "timestamp", <<>>)

\* e put into the sorted list before the elements of equal key.
RECURSIVE InsertByKeyBeforeEqual(_, _)
InsertByKeyBeforeEqual(sorted, e) ==
    IF sorted = <<>> THEN <<e>>
    ELSE IF ~StrLess(SortKey(Head(sorted)), SortKey(e)) THEN <<e>> \o sorted
    ELSE <<Head(sorted)>> \o InsertByKeyBeforeEqual(Tail(sorted), e)

\* e put into the sorted list after every element whose key is not greater
\* (list.sort is stable).
RECURSIVE InsertByKey(_, _)
InsertByKey(sorted, e) ==
    IF sorted = <<>> THEN <<e>>
    ELSE IF StrLess(SortKey(e), SortKey(Head(sorted))) THEN <<e>> \o sorted
    ELSE <<Head(sorted)>> \o InsertByKey(Tail(sorted), e)

RECURSIVE SortIter(_, _)
SortIter(sorted, rest) ==
    IF rest = <<>> THEN sorted ELSE SortIter(InsertByKey(sorted, Head(rest)), Tail(rest))

\* all_entries.sort(key=lambda x: x.get("timestamp", ""))
SortByTimestamp(entries) == SortIter(<<>>, entries)

\* min in the place of max.
LatestLogMin(logs) ==
    LET i == CHOOSE i \in 1..Len(logs) :
                 /\ \A j \in 1..Len(logs) : logs[j][2] >= logs[i][2]
                 /\ \A j \in 1..(i - 1) : logs[j][2] > logs[i][2]
    IN logs[i][1]

\* max(tycoon_logs, key=lambda x: x[1])[0]: the first pair of the list whose
\* modification time no other pair exceeds.
LatestLog(logs) ==
    LET i == CHOOSE i \in 1..Len(logs) :
                 /\ \A j \in 1..Len(logs) : logs[j][2] <= logs[i][2]
                 /\ \A j \in 1..(i - 1) : logs[j][2] < logs[i][2]
    IN logs[i][1]

(***************************************************************************)
(* The inputs: the files on disk, the clock, the request                   *)
(***************************************************************************)

\* The largest tail_lines requested.
MaxTail == 2

\* The file names of the workspace directory: 'Tycoon_A.log',
\* 'Tycoon_B.log' and 'Tycoon_C.txt' (which the name test rejects).
NameA == <<84, 121, 99, 111, 111, 110, 95, 65, 46, 108, 111, 103>>
NameB == <<84, 121, 99, 111, 111, 110, 95, 66, 46, 108, 111, 103>>
NameC == <<84, 121, 99, 111, 111, 110, 95, 67, 46, 116, 120, 116>>
WorkspaceNames == {NameA, NameB, NameC}

\* The log lines, as readlines() returns them:
\* '[2026-11-03 21:45:32] ERROR x\n'
LnOld ==
    <<91, 50, 48, 50, 54, 45, 49, 49, 45, 48, 51, 32, 50, 49, 58, 52, 53, 58, 51, 50,
      93, 32, 69, 82, 82, 79, 82, 32, 120, 10>>
\* '[09:00:00] INFO ok\n'
LnMorn == <<91, 48, 57, 58, 48, 48, 58, 48, 48, 93, 32, 73, 78, 70, 79, 32, 111, 107, 10>>
\* '[23:58:00] ' + cross mark + '\n'
LnLate == <<91, 50, 51, 58, 53, 56, 58, 48, 48, 93, 32, 10060, 10>>
\* 'Failed\n'
LnPlain == <<70, 97, 105, 108, 101, 100, 10>>
\* '[2026-11-04 23:57:30.123] ' + check mark + ' done\n'
LnFrac ==
    <<91, 50, 48, 50, 54, 45, 49, 49, 45, 48, 52, 32, 50, 51, 58, 53, 55, 58, 51, 48,
      46, 49, 50, 51, 93, 32, 9989, 32, 100, 111, 110, 101, 10>>
\* '  \n'
LnBlank == <<32, 32, 10>>

\* The pieces log lines are made of: a bracketed timestamp of each of the
\* four formats, two that no datetime can hold, markers of each level, and
\* words that are no marker.
\* '[2026-11-04 23:58:30.123]'
TokDateTimeFrac ==
    <<91, 50, 48, 50, 54, 45, 49, 49, 45, 48, 52, 32, 50, 51, 58, 53, 56, 58, 51, 48,
      46, 49, 50, 51, 93>>
\* '[2026-11-03 21:45:32]'
TokDateTime ==
    <<91, 50, 48, 50, 54, 45, 49, 49, 45, 48, 51, 32, 50, 49, 58, 52, 53, 58, 51, 50,
      93>>
\* '[09:00:00.500]'
TokTimeFrac ==
    <<91, 48, 57, 58, 48, 48, 58, 48, 48, 46, 53, 48, 48, 93>>
\* '[23:58:00]'
TokTime ==
    <<91, 50, 51, 58, 53, 56, 58, 48, 48, 93>>
\* '[25:00:00]'
TokBadTime ==
    <<91, 50, 53, 58, 48, 48, 58, 48, 48, 93>>
\* '[2026-13-01 00:00:00]'
TokBadDate ==
    <<91, 50, 48, 50, 54, 45, 49, 51, 45, 48, 49, 32, 48, 48, 58, 48, 48, 58, 48, 48,
      93>>
\* 'ERROR'
TokError ==
    <<69, 82, 82, 79, 82>>
\* cross mark
TokCross ==
    <<10060>>
\* 'WARN'
TokWarn ==
    <<87, 65, 82, 78>>
\* warning sign + variation selector
TokWarnSign ==
    <<9888, 65039>>
\* 'SUCCESS'
TokSuccess ==
    <<83, 85, 67, 67, 69, 83, 83>>
\* 'completed'
TokCompleted ==
    <<99, 111, 109, 112, 108, 101, 116, 101, 100>>
\* 'INFO'
TokInfo ==
    <<73, 78, 70, 79>>
\* magnifying glass
TokGlass ==
    <<128269>>
\* 'error'
TokLowerError ==
    <<101, 114, 114, 111, 114>>
\* 'x'
TokWord ==
    <<120>>
Tokens ==
    { TokDateTimeFrac, TokDateTime, TokTimeFrac, TokTime, TokBadTime, TokBadDate,
      TokError, TokCross, TokWarn, TokWarnSign, TokSuccess, TokCompleted, TokInfo,
      TokGlass, TokLowerError, TokWord }

\* The lines of the documented scenarios:
\* '[2025-07-13 21:45:32.123] ' + check mark + ' Completed panel 01-1001\n'
LnScenarioA ==
    <<91, 50, 48, 50, 53, 45, 48, 55, 45, 49, 51, 32, 50, 49, 58, 52, 53, 58, 51, 50,
      46, 49, 50, 51, 93, 32, 9989, 32, 67, 111, 109, 112, 108, 101, 116, 101, 100, 32,
      112, 97, 110, 101, 108, 32, 48, 49, 45, 49, 48, 48, 49, 10>>
\* '[2025-07-13 21:45:32.123] ' + floppy disk + ' saved INFO\n'
LnScenarioASaved ==
    <<91, 50, 48, 50, 53, 45, 48, 55, 45, 49, 51, 32, 50, 49, 58, 52, 53, 58, 51, 50,
      46, 49, 50, 51, 93, 32, 128190, 32, 115, 97, 118, 101, 100, 32, 73, 78, 70, 79,
      10>>
\* '[ERROR] Failed to set parameter\n'
LnScenarioB ==
    <<91, 69, 82, 82, 79, 82, 93, 32, 70, 97, 105, 108, 101, 100, 32, 116, 111, 32,
      115, 101, 116, 32, 112, 97, 114, 97, 109, 101, 116, 101, 114, 10>>

\* The lines of one piece, or of two with a space between, as readlines()
\* returns them, and the scenario lines.
LinePool ==
    {a \o <<10>> : a \in Tokens} \cup {a \o <<32>> \o b \o <<10>> : a, b \in Tokens}
        \cup {LnScenarioA, LnScenarioASaved, LnScenarioB}

\* filter_level as a caller may write it: 'ERROR', 'Success', 'warning',
\* 'Info', 'error'
FilterLevelsAnyCase ==
    { LvAll, <<69, 82, 82, 79, 82>>, <<83, 117, 99, 99, 101, 115, 115>>, LvWarning,
      <<73, 110, 102, 111>>, LvError }

\* '[09:00:00] WARN\n'
LnMornWarn == <<91, 48, 57, 58, 48, 48, 58, 48, 48, 93, 32, 87, 65, 82, 78, 10>>

\* The lines of the files that are merged: two with the same timestamp text,
\* two with none, one with a later time.
MergePool == {LnMorn, LnMornWarn, LnPlain, LnScenarioB, LnLate}

\* What each file holds when it exists.
RenumberLines == <<LnMorn, LnPlain, LnFrac>>
WorkspaceLines(name) ==
    IF name = NameA THEN <<LnOld, LnBlank, LnLate>>
    ELSE IF name = NameB THEN <<LnFrac, LnMorn>>
    ELSE <<LnPlain>>

RenumberPath == PathJoin(tycoon_dir, RenumberName)

\* The modification times a workspace file can have.
Mtimes == {1, 2}

\* The readings of datetime.now(): the clock only moves forward through them
\* (one minute before midnight, one minute after).
Clock == << <<2026, 11, 4, 23, 59, 0, 0>>, <<2026, 11, 5, 0, 1, 0, 0>> >>

LogTypes == {"all", "renumber", "tycoon", "console"}
FilterLevels == {LvAll, LvError}
SinceMinutes == {0, 2}

Requests ==
    [ log_type : LogTypes, tail_lines : 0..MaxTail, filter_level : FilterLevels,
      since_minutes : SinceMinutes ]

\* The file systems: the renumber file present or not, the workspace directory
\* missing, or holding any subset of its files with any modification times;
\* at most one of the files cannot be opened.
WorkspaceChoices == UNION { [S -> Mtimes] : S \in SUBSET WorkspaceNames }

FileSystem(renumber, ws, locked) ==
    LET paths == (IF renumber THEN {RenumberPath} ELSE {})
                     \cup {PathJoin(workspace_dir, n) : n \in DOMAIN ws}
        NameOf(path) == CHOOSE n \in DOMAIN ws : PathJoin(workspace_dir, n) = path
    IN [ path \in paths |->
           IF path = RenumberPath
           THEN [lines |-> RenumberLines, mtime |-> 1, readable |-> path \notin locked]
           ELSE [lines |-> WorkspaceLines(NameOf(path)), mtime |-> ws[NameOf(path)],
                 readable |-> path \notin locked] ]

\* _parse_log_line tabulated over the calls these inputs can lead to (every
\* stripped line, for either source, at every line number, at every reading of
\* the clock), so that a call of line 133 is a look-up.
AllFiles ==
    {RenumberLines} \cup {WorkspaceLines(n) : n \in WorkspaceNames}
        \cup {<<line>> : line \in LinePool \cup MergePool}
ParseLineArgs ==
    (UNION {{Strip(f[i]) : i \in 1..Len(f)} : f \in AllFiles})
        \X {"renumber", "tycoon"}
        \X (UNION {1..Len(f) : f \in AllFiles})
        \X {Clock[c] : c \in 1..Len(Clock)}
ParseLineTable == [a \in ParseLineArgs |-> parse_log_line(a[1], a[2], a[3], a[4])]

(***************************************************************************)
(* _parse_log_file                                                         *)
(***************************************************************************)

\* None
None == <<>>

\* The time filter with its comparison turned round.
PassesTimeFilterReversed(entry, cutoff_time) ==
    IF cutoff_time # None /\ Get(entry, "parsed_timestamp", <<>>) # <<>>
    THEN LET entry_time == FromIsoFormat(entry.parsed_timestamp)
         IN IF entry_time = <<>> THEN TRUE ELSE ~DtLess(cutoff_time, entry_time)
    ELSE TRUE

\* The time filter skipping, under a cutoff, the entries that have no parsed
\* timestamp.
PassesTimeFilterNeedsTimestamp(entry, cutoff_time) ==
    IF cutoff_time = None THEN TRUE
    ELSE IF Get(entry, "parsed_timestamp", <<>>) = <<>> THEN FALSE
    ELSE LET entry_time == FromIsoFormat(entry.parsed_timestamp)
         IN IF entry_time = <<>> THEN TRUE ELSE ~DtLess(entry_time, cutoff_time)

\* The time filter: FALSE when the entry is skipped (the `continue`).
PassesTimeFilter(entry, cutoff_time) ==
    IF cutoff_time # None /\ Get(entry, "parsed_timestamp", <<>>) # <<>>
    THEN LET entry_time == FromIsoFormat(entry.parsed_timestamp)
         IN IF entry_time = <<>> THEN TRUE    \* except: pass
            ELSE ~DtLess(entry_time, cutoff_time)
    ELSE TRUE

\* The level filter comparing the level as written with the lowered filter.
PassesLevelFilterInverted(entry, filter_level) ==
    ~(filter_level # LvAll /\ Lower(Get(entry, "level", <<>>)) = Lower(filter_level))

\* The level filter comparing without .lower() on the requested level.
PassesLevelFilterCaseSensitive(entry, filter_level) ==
    ~(filter_level # LvAll /\ Lower(Get(entry, "level", <<>>)) # filter_level)

\* The level filter: FALSE when the entry is skipped.
PassesLevelFilter(entry, filter_level) ==
    ~(filter_level # LvAll /\ Lower(Get(entry, "level", <<>>)) # Lower(filter_level))

\* The body of the for loop over enumerate(lines, 1), from line number n on.
RECURSIVE ParseLines(_, _, _, _, _, _)
ParseLines(lines, n, log_source, filter_level, cutoff_time, today) ==
    IF n > Len(lines) THEN <<>>
    ELSE LET line == Strip(lines[n])
             rest == ParseLines(lines, n + 1, log_source, filter_level, cutoff_time, today)
             entry == ParseLineTable[<<line, log_source, n, today>>]
         IN IF line = <<>> THEN rest
            ELSE IF ~PassesTimeFilter(entry, cutoff_time) THEN rest
            ELSE IF ~PassesLevelFilter(entry, filter_level) THEN rest
            ELSE <<entry>> \o rest

\* The entry the except branch appends.
ReadErrorEntry(file_path, log_source, error, today) ==
    [ source |-> log_source,
      level |-> LvError,
      message |-> MsgReadError \o file_path \o <<58, 32>> \o error,
      timestamp |-> IsoFormat(today),
      raw_line |-> <<>> ]

\* Whether open()/readlines() on the path raises, and what it raises: the file
\* is gone, or it is there and cannot be opened.
OpenFails(files, file_path) ==
    file_path \notin DOMAIN files \/ ~files[file_path].readable

OpenError(files, file_path) ==
    IF file_path \notin DOMAIN files THEN ErrNoEnt(file_path) ELSE ErrAccess(file_path)

\* _parse_log_file with an except branch that appends nothing.
parse_log_file_silent(files, today, file_path, log_source, tail_lines, filter_level, cutoff_time) ==
    IF OpenFails(files, file_path)
    THEN <<>>
    ELSE ParseLines(TailLimit(files[file_path].lines, tail_lines), 1,
                    log_source, filter_level, cutoff_time, today)

\* _parse_log_file(file_path, log_source, tail_lines, filter_level,
\* cutoff_time) on the file system `files`, datetime.now() returning `today`.
parse_log_file(files, today, file_path, log_source, tail_lines, filter_level, cutoff_time) ==
    IF OpenFails(files, file_path)
    THEN << ReadErrorEntry(file_path, log_source, OpenError(files, file_path), today) >>
    ELSE ParseLines(TailLimit(files[file_path].lines, tail_lines), 1,
                    log_source, filter_level, cutoff_time, today)

(***************************************************************************)
(* monitor_script_logs as a process: one action per step at which the      *)
(* clock or the files on disk can change under it.                         *)
(***************************************************************************)

VARIABLES
    fs,            \* path -> [lines, mtime, readable], the files that exist
    dir_exists,    \* whether workspace_dir exists
    clk,           \* index in Clock of what datetime.now() returns
    request,       \* the arguments of the call
    pc,            \* where the call is
    log_files,     \* the dict, as the list of its (name, path) items
    listing,       \* what is left of os.listdir(workspace_dir)
    tycoon_logs,   \* the list of (full_path, mtime)
    cutoff_time,
    all_entries,
    parsed,        \* how many items of log_files the loop of line 76 has done
    response,      \* what the call returned
    calls,         \* the number of the call
    prev,          \* what the call before returned
    opened,        \* the paths the call passed to open()
    read_failed,   \* the sources whose open() raised
    raised,        \* the calls that raised into the handler of line 101
    cutoff_used,   \* the cutoff_time the call computed
    candidates,    \* the tycoon_logs the call chose among
    unlinked       \* the paths removed since the call began

locals == << log_files, listing, tycoon_logs, cutoff_time, all_entries, parsed >>
history == << opened, read_failed, raised, cutoff_used, candidates >>
vars ==
    << fs, dir_exists, clk, request, pc, locals, response, calls, prev, history,
       unlinked >>

now == Clock[clk]

NoResponse == [status |-> "pending", entries |-> <<>>]

\* A call is about to begin on the files.
BeginOn(files, dirx, req) ==
    /\ dir_exists = dirx
    /\ fs = files
    /\ clk = 1
    /\ request = req
    /\ pc = "resolve_renumber"
    /\ log_files = <<>>
    /\ listing = <<>>
    /\ tycoon_logs = <<>>
    /\ cutoff_time = None
    /\ all_entries = <<>>
    /\ parsed = 0
    /\ opened = {}
    /\ read_failed = {}
    /\ raised = {}
    /\ cutoff_used = None
    /\ candidates = <<>>
    /\ response = NoResponse
    /\ calls = 1
    /\ prev = NoResponse
    /\ unlinked = {}

\* A call is about to begin on the file system built from the choices.
Begin(renumber, ws, locked, dirx, req) ==
    BeginOn(FileSystem(renumber, ws, locked), dirx, req)

LockChoices == {{}, {RenumberPath}, {PathJoin(workspace_dir, NameA)}}

\* Every request, on the file systems whose workspace directory exists and
\* holds Tycoon_A.log (older) and Tycoon_B.log (newer), or one, or neither.
Init ==
    \E renumber \in BOOLEAN, locked \in LockChoices, req \in Requests,
       ws \in { w \in WorkspaceChoices :
                  /\ DOMAIN w \subseteq {NameA, NameB}
                  /\ NameA \in DOMAIN w => w[NameA] = 1
                  /\ NameB \in DOMAIN w => w[NameB] = 2 } :
        /\ locked \subseteq DOMAIN FileSystem(renumber, ws, {})
        /\ Begin(renumber, ws, locked, TRUE, req)

\* Every file system (the workspace directory missing, or holding any files
\* with any modification times), read through by a request that filters
\* nothing out.
InitResolve ==
    \E renumber \in BOOLEAN, locked \in LockChoices, dirx \in BOOLEAN,
       ws \in WorkspaceChoices, log_type \in LogTypes, tail_lines \in 0..MaxTail :
        /\ ~dirx => DOMAIN ws = {}
        /\ locked \subseteq DOMAIN FileSystem(renumber, ws, {})
        /\ Begin(renumber, ws, locked, dirx,
                 [ log_type |-> log_type, tail_lines |-> tail_lines,
                   filter_level |-> LvAll, since_minutes |-> 0 ])

\* The renumber file holding one line of the pool, readable or not.
LineFile(line, readable) ==
    [ path \in {RenumberPath} |-> [lines |-> <<line>>, mtime |-> 1, readable |-> readable] ]

\* The renumber source alone, its file holding any line of the pool, read
\* under every filter level in any letter case, with a window or without.
InitLine ==
    \E line \in LinePool, readable \in BOOLEAN, filter_level \in FilterLevelsAnyCase,
       since_minutes \in SinceMinutes :
        BeginOn(LineFile(line, readable), TRUE,
                [ log_type |-> "renumber", tail_lines |-> MaxTail,
                  filter_level |-> filter_level, since_minutes |-> since_minutes ])

\* The renumber file and Tycoon_B.log, each holding the given lines.
MergeFiles(renumber_lines, tycoon_lines) ==
    [ path \in {RenumberPath, PathJoin(workspace_dir, NameB)} |->
        [ lines |-> IF path = RenumberPath THEN renumber_lines ELSE tycoon_lines,
          mtime |-> 1, readable |-> TRUE ] ]

\* Both sources, each file holding any two lines of the merge pool, read with
\* no filter under every tail_lines from 1 on.
InitMerge ==
    \E renumber_lines \in [1..2 -> MergePool], tycoon_lines \in [1..2 -> MergePool],
       tail_lines \in 1..MaxTail :
        BeginOn(MergeFiles(renumber_lines, tycoon_lines), TRUE,
                [ log_type |-> "all", tail_lines |-> tail_lines,
                  filter_level |-> LvAll, since_minutes |-> 0 ])

\* The call returns `result`: its locals are gone.
Return(result) ==
    /\ response' = result
    /\ pc' = "done"
    /\ log_files' = <<>>
    /\ listing' = <<>>
    /\ tycoon_logs' = <<>>
    /\ cutoff_time' = None
    /\ all_entries' = <<>>
    /\ parsed' = 0

\* A handler that lets the exception through to the caller.
TopLevelExceptReraise(error) ==
    [ status |-> "raised", message |-> error, entries |-> <<>> ]

\* The except clause of lines 101-106: what the call returns when `error`
\* (the text of the exception) is raised inside the try block.
TopLevelExcept(error) ==
    [ status |-> "error", message |-> MsgMonitorError \o error, entries |-> <<>> ]

\* The return of lines 62-67.
NoLogsFound ==
    [ status |-> "no_logs_found", message |-> MsgNoLogs,
      searched_paths |-> <<tycoon_dir, workspace_dir>>, entries |-> <<>> ]

\* "renumber" in log_files, list(log_files.keys())
HasKey(files, name) == \E i \in 1..Len(files) : files[i][1] = name
Keys(files) == [i \in 1..Len(files) |-> files[i][1]]

\* The return reporting the limit asked for as the number of entries.
SuccessTotalIsLimit(files, entries, req, last_updated) ==
    [ status |-> "success",
      log_files_monitored |-> Keys(files),
      total_entries |-> req.tail_lines,
      filter_applied |-> req.filter_level,
      time_range |-> IF req.since_minutes > 0
                     THEN TimeLast \o IntStr(req.since_minutes) \o TimeMinutes
                     ELSE TimeAll,
      entries |-> entries,
      monitoring_info |->
          [ renumber_log_exists |-> HasKey(files, "renumber"),
            tycoon_log_exists |-> HasKey(files, "tycoon"),
            last_updated |-> IsoFormat(last_updated) ] ]

\* The return of lines 87-99.
Success(files, entries, req, last_updated) ==
    [ status |-> "success",
      log_files_monitored |-> Keys(files),
      total_entries |-> Len(entries),
      filter_applied |-> req.filter_level,
      time_range |-> IF req.since_minutes > 0
                     THEN TimeLast \o IntStr(req.since_minutes) \o TimeMinutes
                     ELSE TimeAll,
      entries |-> entries,
      monitoring_info |->
          [ renumber_log_exists |-> HasKey(files, "renumber"),
            tycoon_log_exists |-> HasKey(files, "tycoon"),
            last_updated |-> IsoFormat(last_updated) ] ]

\* file.startswith("Tycoon_") and file.endswith(".log")
IsTycoonLog(file) == StartsWith(file, TycoonPrefix) /\ EndsWith(file, LogSuffix)

\* The orders os.listdir may return the names in (the order is arbitrary).
Listings(names) ==
    { l \in UNION { [1..n -> names] : n \in {Cardinality(names)} } :
        \A i, j \in 1..Len(l) : i # j => l[i] # l[j] }

\* Lines 43-46: the renumber file is looked up.
ResolveRenumber ==
    /\ pc = "resolve_renumber"
    /\ log_files' =
          IF request.log_type \in {"all", "renumber"} /\ RenumberPath \in DOMAIN fs
          THEN << <<"renumber", RenumberPath>> >>
          ELSE <<>>
    /\ pc' = IF request.log_type \in {"all", "tycoon"} THEN "listdir" ELSE "select"
    /\ UNCHANGED << fs, dir_exists, clk, request, listing, tycoon_logs, cutoff_time,
                    all_entries, parsed, response, calls, prev, history, unlinked >>

\* Line 51: os.listdir(workspace_dir), which raises when the directory is
\* missing.
ListDir ==
    /\ pc = "listdir"
    /\ IF ~dir_exists
       THEN /\ Return(TopLevelExcept(ErrNoEnt(workspace_dir)))
            /\ raised' = raised \cup {"os.listdir"}
       ELSE /\ listing' \in
                 Listings({n \in WorkspaceNames : PathJoin(workspace_dir, n) \in DOMAIN fs})
            /\ pc' = "getmtime"
            /\ UNCHANGED << log_files, tycoon_logs, cutoff_time, all_entries, parsed,
                            response, raised >>
    /\ UNCHANGED << fs, dir_exists, clk, request, calls, prev, opened, read_failed,
                    cutoff_used, candidates, unlinked >>

\* Lines 51-54: one turn of the loop over the listing; os.path.getmtime
\* raises when the file is no longer there.
GetMtime ==
    /\ pc = "getmtime"
    /\ listing # <<>>
    /\ LET file == Head(listing)
           full_path == PathJoin(workspace_dir, file)
       IN IF IsTycoonLog(file) /\ full_path \notin DOMAIN fs
          THEN /\ Return(TopLevelExcept(ErrNoEnt(full_path)))
               /\ raised' = raised \cup {"os.path.getmtime"}
          ELSE /\ tycoon_logs' =
                     IF IsTycoonLog(file)
                     THEN Append(tycoon_logs, <<full_path, fs[full_path].mtime>>)
                     ELSE tycoon_logs
               /\ listing' = Tail(listing)
               /\ UNCHANGED << log_files, cutoff_time, all_entries, parsed, response, pc,
                               raised >>
    /\ UNCHANGED << fs, dir_exists, clk, request, calls, prev, opened, read_failed,
                    cutoff_used, candidates, unlinked >>

\* Lines 56-74: the latest tycoon log is chosen, the call returns when no
\* file was found, and the cutoff is computed.
SelectSources ==
    /\ pc = IF request.log_type \in {"all", "tycoon"} THEN "getmtime" ELSE "select"
    /\ listing = <<>>
    /\ LET files == IF tycoon_logs # <<>>
                    THEN Append(log_files, <<"tycoon", LatestLog(tycoon_logs)>>)
                    ELSE log_files
       IN IF files = <<>>
          THEN Return(NoLogsFound) /\ UNCHANGED cutoff_used
          ELSE /\ log_files' = files
               /\ cutoff_time' = IF request.since_minutes > 0
                                 THEN MinusMinutes(now, request.since_minutes)
                                 ELSE None
               /\ cutoff_used' = cutoff_time'
               /\ pc' = "parse"
               /\ UNCHANGED << listing, tycoon_logs, all_entries, parsed, response >>
    /\ candidates' = tycoon_logs
    /\ UNCHANGED << fs, dir_exists, clk, request, calls, prev, opened, read_failed, raised,
                    unlinked >>

\* Lines 76-78: one turn of the loop over log_files.items().
ParseSource ==
    /\ pc = "parse"
    /\ parsed < Len(log_files)
    /\ LET log_name == log_files[parsed + 1][1]
           log_path == log_files[parsed + 1][2]
       IN /\ all_entries' =
                all_entries \o parse_log_file(fs, now, log_path, log_name,
                                              request.tail_lines, request.filter_level,
                                              cutoff_time)
          /\ opened' = opened \cup {log_path}
          /\ read_failed' = IF OpenFails(fs, log_path)
                            THEN read_failed \cup {log_name} ELSE read_failed
    /\ parsed' = parsed + 1
    /\ UNCHANGED << fs, dir_exists, clk, request, pc, log_files, listing, tycoon_logs,
                    cutoff_time, response, calls, prev, raised, cutoff_used, candidates,
                    unlinked >>

\* Lines 80-99: the sort, the tail limit and the return.
Finish ==
    /\ pc = "parse"
    /\ parsed = Len(log_files)
    /\ Return(Success(log_files,
                      TailLimit(SortByTimestamp(all_entries), request.tail_lines),
                      request, now))
    /\ UNCHANGED << fs, dir_exists, clk, request, calls, prev, history, unlinked >>

\* The caller calls a second time with the same arguments.
CallAgain ==
    /\ pc = "done"
    /\ calls = 1
    /\ calls' = calls + 1
    /\ prev' = response
    /\ response' = NoResponse
    /\ pc' = "resolve_renumber"
    /\ opened' = {}
    /\ read_failed' = {}
    /\ raised' = {}
    /\ cutoff_used' = None
    /\ candidates' = <<>>
    /\ UNCHANGED << fs, dir_exists, clk, request, locals, unlinked >>

\* Time passes.
Tick ==
    /\ clk < Len(Clock)
    /\ clk' = clk + 1
    /\ UNCHANGED << fs, dir_exists, request, pc, locals, response, calls, prev, history,
                    unlinked >>

\* The host removes a log file while a call is running.
Unlink ==
    /\ pc # "done"
    /\ unlinked = {}
    /\ \E path \in DOMAIN fs :
          /\ fs' = [q \in DOMAIN fs \ {path} |-> fs[q]]
          /\ unlinked' = {path}
    /\ UNCHANGED << dir_exists, clk, request, pc, locals, response, calls, prev, history >>

\* Two calls in a row on files that stay, while the clock moves.
Next ==
    \/ ResolveRenumber
    \/ ListDir
    \/ GetMtime
    \/ SelectSources
    \/ ParseSource
    \/ Finish
    \/ CallAgain
    \/ Tick

Spec == Init /\ [][Next]_vars

\* One call while the host removes a file.
NextResolve ==
    \/ ResolveRenumber
    \/ ListDir
    \/ GetMtime
    \/ SelectSources
    \/ ParseSource
    \/ Finish
    \/ Unlink

SpecResolve == InitResolve /\ [][NextResolve]_vars

\* One call on a one-line file.
NextLine ==
    \/ ResolveRenumber
    \/ SelectSources
    \/ ParseSource
    \/ Finish

SpecLine == InitLine /\ [][NextLine]_vars

\* One call on files that stay.
NextMerge ==
    \/ ResolveRenumber
    \/ ListDir
    \/ GetMtime
    \/ SelectSources
    \/ ParseSource
    \/ Finish

SpecMerge == InitMerge /\ [][NextMerge]_vars

(***************************************************************************)
(* Properties                                                              *)
(***************************************************************************)

Returned == pc = "done"
Entries == response.entries
EntrySet == {Entries[i] : i \in 1..Len(Entries)}

\* An entry parsed from a line (the entry of the except branch has no line
\* number), and one whose timestamp was resolved.
IsParsed(e) == "line_number" \in DOMAIN e
IsResolved(e) == Get(e, "parsed_timestamp", <<>>) # <<>>
ResolvedTime(e) == FromIsoFormat(e.parsed_timestamp)

WorkspacePaths == {PathJoin(workspace_dir, n) : n \in WorkspaceNames}

\* C1: the entries list of every response has length at most tail_lines,
\* for every tail_lines the function accepts.
C1_AtMostTailLines == Returned => Len(Entries) <= request.tail_lines

\* C2: in a success response, of two entries with a resolved timestamp the
\* one that comes first has the earlier or equal resolved timestamp.
C2_SortedByResolvedTime ==
    Returned /\ response.status = "success" =>
        \A i, j \in 1..Len(Entries) :
            i < j /\ IsResolved(Entries[i]) /\ IsResolved(Entries[j]) =>
                ~DtLess(ResolvedTime(Entries[j]), ResolvedTime(Entries[i]))

\* C3: with filter_level "error" every returned entry has level "error",
\* the entries made for unreadable sources included.
C3_ErrorFilterOnlyErrors ==
    Returned /\ request.filter_level = LvError =>
        \A e \in EntrySet : Get(e, "level", <<>>) = LvError

\* A response under the error filter that holds an entry parsed from a line
\* and the entry of a source that could not be read.
C3_Witness ==
    /\ Returned /\ request.filter_level = LvError
    /\ \E e \in EntrySet : IsParsed(e)
    /\ \E e \in EntrySet : ~IsParsed(e)

\* C4: with since_minutes = N > 0 every returned entry has no resolved
\* timestamp or one not before the cutoff of the call, which is a reading of
\* the clock minus N minutes.
C4_NotBeforeCutoff ==
    Returned /\ request.since_minutes > 0 /\ response.status = "success" =>
        /\ \E c \in 1..clk : cutoff_used = MinusMinutes(Clock[c], request.since_minutes)
        /\ \A e \in EntrySet :
              IsResolved(e) => ~DtLess(ResolvedTime(e), cutoff_used)

\* Tycoon_B.log, read whole under a window: its line of 23:57:30.123 is
\* returned and its line of 09:00:00 is not.
C4_Witness ==
    /\ Returned /\ request.since_minutes > 0 /\ response.status = "success"
    /\ request.filter_level = LvAll /\ request.tail_lines = Len(WorkspaceLines(NameB))
    /\ opened = {PathJoin(workspace_dir, NameB)} /\ read_failed = {}
    /\ Len(Entries) = 1 /\ Entries[1].raw_line = Strip(LnFrac)
    /\ IsResolved(Entries[1])

\* C5: a second call with the same request on unchanged files returns the
\* entries the first returned, whatever the clock reads at each call.
C5_SameEntriesAgain ==
    Returned /\ calls = 2 /\ unlinked = {} => Entries = prev.entries

\* C6 as stated: whenever something failed during the call (resolving the
\* sources, or reading one), the result has status "error", no entries and
\* a message.
C6_AnyFailureGivesError ==
    Returned /\ (raised # {} \/ read_failed # {}) =>
        /\ response.status = "error"
        /\ Entries = <<>>
        /\ Len(Get(response, "message", <<>>)) > Len(MsgMonitorError)

\* C6, amended: every call returns a result; a failure that the per-source
\* boundary does not take (raised while the sources are resolved) gives
\* status "error", no entries and a message that holds the text of the
\* exception; a failure while a source is opened or read is taken by that
\* boundary and leaves the status "success".
C6_EscapingFailureGivesError ==
    Returned =>
        /\ response.status \in {"success", "no_logs_found", "error"}
        /\ raised # {} =>
              /\ response.status = "error"
              /\ Entries = <<>>
              /\ StartsWith(response.message, MsgMonitorError)
              /\ Len(response.message) > Len(MsgMonitorError)
        /\ raised = {} /\ read_failed # {} => response.status = "success"
        /\ raised = {} => response.status # "error"

\* A call that listed a missing directory, or lost a candidate before its
\* modification time was read, has returned.
C6_Witness == Returned /\ raised # {} /\ response.status = "error"

\* The entries of all_entries that one source contributed.
Contribution(source) == SelectSeq(all_entries, LAMBDA e : e.source = source)

\* C7: a source whose file cannot be opened or read contributes one entry,
\* of level "error" and of that source; the call returns "success"; and what
\* the other sources contribute is what their files parse to.
C7_ReadFailureIsOneEntry ==
    /\ pc = "parse" /\ parsed = Len(log_files) =>
          \A i \in 1..Len(log_files) :
              LET source == log_files[i][1]
                  path == log_files[i][2]
              IN IF source \in read_failed
                 THEN /\ Len(Contribution(source)) = 1
                      /\ Contribution(source)[1].level = LvError
                      /\ Contribution(source)[1].source = source
                      /\ ~IsParsed(Contribution(source)[1])
                 ELSE path \in DOMAIN fs =>
                         \E c \in 1..clk :
                             Contribution(source) =
                                 ParseLines(TailLimit(fs[path].lines, request.tail_lines),
                                            1, source, request.filter_level, cutoff_time,
                                            Clock[c])
    /\ Returned /\ read_failed # {} /\ raised = {} => response.status = "success"

\* Both sources have been read: one failed, the other contributed entries.
C7_Witness ==
    /\ pc = "parse" /\ parsed = Len(log_files) /\ Len(log_files) = 2
    /\ Cardinality(read_failed) = 1
    /\ \E i \in 1..2 : log_files[i][1] \notin read_failed
                          /\ Len(Contribution(log_files[i][1])) >= 2

\* The tycoon logs on disk.
TycoonLogsOnDisk ==
    {path \in DOMAIN fs : \E n \in WorkspaceNames :
                             path = PathJoin(workspace_dir, n) /\ IsTycoonLog(n)}

\* C8: when no file exists at any searched path (no renumber file, and no
\* tycoon log in the workspace directory or no such directory), the result
\* has status "no_logs_found", no entries, and lists the searched paths.
C8_NothingOnDiskIsNoLogsFound ==
    Returned /\ unlinked = {} /\ RenumberPath \notin DOMAIN fs /\ TycoonLogsOnDisk = {} =>
        /\ response.status = "no_logs_found"
        /\ Entries = <<>>
        /\ Get(response, "searched_paths", <<>>) = <<tycoon_dir, workspace_dir>>

\* C9: with log_type "all", the renumber file present and nothing for the
\* tycoon source to resolve (no tycoon log, no workspace directory, or a
\* candidate gone during resolution), the result has status "success".
C9_MissingTycoonIsSuccess ==
    Returned /\ request.log_type = "all" /\ RenumberPath \in DOMAIN fs
             /\ TycoonLogsOnDisk = {} /\ opened \subseteq {RenumberPath} =>
        response.status = "success"

\* The lines of a workspace file, stripped.
StrippedLinesOf(path) ==
    UNION { {Strip(WorkspaceLines(n)[i]) : i \in 1..Len(WorkspaceLines(n))} :
              n \in {m \in WorkspaceNames : PathJoin(workspace_dir, m) = path} }

\* C10: of the tycoon candidates only one is opened, one whose modification
\* time no candidate exceeds, and every entry of the tycoon source in the
\* response is a line of that file.
C10_OnlyLatestCandidateRead ==
    Returned /\ response.status = "success" =>
        /\ Cardinality(opened \cap WorkspacePaths) <= 1
        /\ \A path \in opened \cap WorkspacePaths :
              \E k \in 1..Len(candidates) :
                  /\ candidates[k][1] = path
                  /\ \A j \in 1..Len(candidates) : candidates[j][2] <= candidates[k][2]
        /\ \A e \in EntrySet :
              e.source = "tycoon" /\ IsParsed(e) =>
                  \E path \in opened \cap WorkspacePaths : e.raw_line \in StrippedLinesOf(path)

\* Two candidates with different modification times, and entries of the
\* tycoon source returned.
C10_Witness ==
    /\ Returned /\ response.status = "success"
    /\ Len(candidates) = 2 /\ candidates[1][2] # candidates[2][2]
    /\ \E e \in EntrySet : e.source = "tycoon" /\ IsParsed(e)

\* The path the call resolved for the tycoon source.
SelectedTycoon == {log_files[i][2] : i \in {k \in 1..Len(log_files) : log_files[k][1] = "tycoon"}}

\* C11: the tycoon file selected is a function of the set of candidates (paths
\* and modification times): it is the file any other order of the directory
\* listing would have led to, also when candidates share the greatest time.
C11_SelectionIgnoresListingOrder ==
    pc = "parse" /\ candidates # <<>> =>
        \A l \in Listings({candidates[i] : i \in 1..Len(candidates)}) :
            SelectedTycoon = {LatestLog(l)}

\* C13: with since_minutes > 0 a returned entry that has a resolved timestamp
\* lies in the closed window from the cutoff to now: it is not before the
\* cutoff and not later than what the clock reads.
C13_WithinClosedWindow ==
    Returned /\ request.since_minutes > 0 /\ response.status = "success" =>
        \A e \in EntrySet :
            IsResolved(e) =>
                /\ ~DtLess(ResolvedTime(e), cutoff_used)
                /\ ~DtLess(now, ResolvedTime(e))

\* C15: in a success response log_files_monitored is the set of the sources
\* that have an entry in the returned list.
C15_MonitoredAreContributors ==
    Returned /\ response.status = "success" =>
        {response.log_files_monitored[i] : i \in 1..Len(response.log_files_monitored)}
            = {e.source : e \in EntrySet}

\* C17: for every entry of a response, parsed from a line or made for a
\* source that could not be read, contains_error is true iff the level is
\* "error" and contains_success is true iff the level is "success".
C17_BooleansFollowLevel ==
    Returned =>
        \A e \in EntrySet :
            /\ Get(e, "contains_error", FALSE) <=> (e.level = LvError)
            /\ Get(e, "contains_success", FALSE) <=> (e.level = LvSuccess)

\* The sources read with success, as (name, path), once the loop of line 76
\* is over.
SourcesRead ==
    {log_files[i] : i \in {k \in 1..Len(log_files) :
                              /\ log_files[k][1] \notin read_failed
                              /\ log_files[k][2] \in DOMAIN fs}}

\* The last n physical lines of a file (none for n = 0).
LastLines(lines, n) == SubSeq(lines, (IF Len(lines) > n THEN Len(lines) - n ELSE 0) + 1,
                              Len(lines))

\* C18: with filter_level "all" and since_minutes 0, every line among the
\* last tail_lines lines of a readable source, whitespace-only lines
\* included, gives one entry before the merge.
C18_EveryLineGivesAnEntry ==
    /\ pc = "parse" /\ parsed = Len(log_files)
    /\ request.filter_level = LvAll /\ request.since_minutes = 0
    /\ request.tail_lines >= 1
    => \A s \in SourcesRead :
          Len(Contribution(s[1])) = Len(LastLines(fs[s[2]].lines, request.tail_lines))

\* C19: the line_number of a parsed entry is the 1-based position of its line
\* in the source file.
C19_LineNumberIsFilePosition ==
    pc = "parse" /\ parsed = Len(log_files) =>
        \A s \in SourcesRead :
            \A k \in 1..Len(Contribution(s[1])) :
                LET e == Contribution(s[1])[k]
                IN /\ e.line_number \in 1..Len(fs[s[2]].lines)
                   /\ Strip(fs[s[2]].lines[e.line_number]) = e.raw_line

\* The entries the lines of a source read with success parse to, before any
\* filter: one for each line of the (tail-limited) file that is not blank.
LineEntries(s) ==
    LET lines == TailLimit(fs[s[2]].lines, request.tail_lines)
    IN { parse_log_line(Strip(lines[n]), s[1], n, now) :
           n \in {k \in 1..Len(lines) : Strip(lines[k]) # <<>>} }

ContributionSet(source) == {Contribution(source)[k] : k \in 1..Len(Contribution(source))}

\* error, success, info or warning in any letter case
IsLevelName(filter_level) == Lower(filter_level) \in {LvError, LvSuccess, LvInfo, LvWarning}

\* C12 as stated: under a filter_level other than "all", every entry of the
\* response has that level (compared ignoring case), whatever happened while
\* the sources were read.
C12_EveryEntryHasFilterLevel ==
    Returned /\ IsLevelName(request.filter_level) =>
        \A e \in EntrySet : Lower(e.level) = Lower(request.filter_level)

\* C12, amended: under a filter_level other than "all", in any letter case,
\* an entry parsed from a line (and inside the time window) is kept iff its
\* level equals filter_level ignoring case, so every parsed entry of the
\* response has that level; the one entry made for a source that could not
\* be read has level "error" and is returned under every filter_level.
C12_ParsedEntriesHaveFilterLevel ==
    /\ pc = "parse" /\ parsed = Len(log_files) /\ IsLevelName(request.filter_level) =>
          /\ \A s \in SourcesRead :
                \A e \in LineEntries(s) :
                    PassesTimeFilter(e, cutoff_time) =>
                        (e \in ContributionSet(s[1])
                            <=> Lower(e.level) = Lower(request.filter_level))
          /\ \A source \in read_failed :
                /\ Len(Contribution(source)) = 1
                /\ Contribution(source)[1].level = LvError
    /\ Returned /\ IsLevelName(request.filter_level) =>
          \A e \in EntrySet :
              IF IsParsed(e) THEN Lower(e.level) = Lower(request.filter_level)
              ELSE e.level = LvError /\ e.source \in read_failed

\* A line classified "success" was kept under the filter_level 'Success'.
C12_Witness ==
    /\ Returned /\ request.filter_level # LvSuccess
    /\ Lower(request.filter_level) = LvSuccess
    /\ \E e \in EntrySet : IsParsed(e) /\ e.level = LvSuccess

\* C14: an entry without a resolved timestamp (no pattern matched, or the
\* matched text is no datetime) passes the time filter under every
\* since_minutes, zero or positive: a source read with success contributes it
\* iff the level filter keeps it.
C14_UnresolvedPassTimeFilter ==
    pc = "parse" /\ parsed = Len(log_files) =>
        \A s \in SourcesRead :
            \A e \in LineEntries(s) :
                ~IsResolved(e) =>
                    (e \in ContributionSet(s[1])
                        <=> (request.filter_level = LvAll
                                \/ Lower(e.level) = Lower(request.filter_level)))

\* Under a window, the response holds an entry whose timestamp text was
\* matched and could not be converted.
C14_Witness ==
    /\ Returned /\ request.since_minutes > 0 /\ cutoff_used # None
    /\ \E e \in EntrySet : IsParsed(e) /\ e.timestamp # <<>> /\ ~IsResolved(e)

\* The entries parsed from lines that the sources contributed.
ParsedContributed == {all_entries[k] : k \in {i \in 1..Len(all_entries) : IsParsed(all_entries[i])}}

HasErrorMarker(line) == \E m \in ErrorIndicators : Contains(line, m)
HasWarningMarker(line) == \E m \in WarningIndicators : Contains(line, m)
HasSuccessMarker(line) == \E m \in SuccessIndicators : Contains(line, m)

\* C16: the level of a parsed entry follows the priority error > warning >
\* success > info over the markers found anywhere in its raw line: "error"
\* when an error marker is there, whatever else is; "warning" with a warning
\* marker and no error marker; "success" with a success marker and neither of
\* those; "info" otherwise.
C16_ClassificationPriority ==
    \A e \in ParsedContributed :
        /\ HasErrorMarker(e.raw_line) => e.level = LvError
        /\ ~HasErrorMarker(e.raw_line) /\ HasWarningMarker(e.raw_line) => e.level = LvWarning
        /\ ~HasErrorMarker(e.raw_line) /\ ~HasWarningMarker(e.raw_line)
              /\ HasSuccessMarker(e.raw_line) => e.level = LvSuccess
        /\ ~HasErrorMarker(e.raw_line) /\ ~HasWarningMarker(e.raw_line)
              /\ ~HasSuccessMarker(e.raw_line) => e.level = LvInfo

\* A line with a warning marker first and an error marker after it was
\* classified "error".
C16_Witness ==
    \E e \in ParsedContributed :
        /\ StartsWith(e.raw_line, TokWarn) /\ EndsWith(e.raw_line, TokCross)
        /\ e.level = LvError

\* The places of the line where the p-th timestamp pattern matches.
MatchesOf(p, line) == {i \in 1..Len(line) : PatMatchAt(timestamp_patterns[p], line, i)}

\* C20: the timestamp of a parsed entry is the text between the brackets of
\* the leftmost match of the first pattern, in the order date+time with
\* fraction, date+time, time with fraction, time, that matches anywhere in
\* the line, also when a later pattern matches further left; it is empty
\* when no pattern matches.
C20_EarliestPatternWins ==
    \A e \in ParsedContributed :
        LET line == e.raw_line
            matching == {p \in 1..4 : MatchesOf(p, line) # {}}
        IN IF matching = {} THEN e.timestamp = <<>>
           ELSE \E p \in matching :
                    /\ \A q \in matching : p <= q
                    /\ \E i \in MatchesOf(p, line) :
                          /\ \A j \in MatchesOf(p, line) : i <= j
                          /\ e.timestamp = SubSeq(line, i + 1, i + Len(timestamp_patterns[p]) - 2)

\* A line that starts with a time-only timestamp and holds a date+time
\* timestamp after it: the date+time text was extracted.
C20_Witness ==
    \E e \in ParsedContributed :
        /\ MatchesOf(4, e.raw_line) = {1}
        /\ MatchesOf(2, e.raw_line) # {}
        /\ Len(e.timestamp) = Len(PatDateTime) - 2

\* The text between the brackets of the leftmost match of the first pattern
\* of the list that matches the line, <<>> when none matches.
FirstBracketText(line) ==
    LET matching == {p \in 1..4 : MatchesOf(p, line) # {}}
        p == CHOOSE q \in matching : \A r \in matching : q <= r
        i == CHOOSE j \in MatchesOf(p, line) : \A k \in MatchesOf(p, line) : j <= k
    IN IF matching = {} THEN <<>>
       ELSE SubSeq(line, i + 1, i + Len(timestamp_patterns[p]) - 2)

\* The text is no instant: strptime raises on it (a time-only text is read
\* with today's date before it).
Unconvertible(text) ==
    Strptime(IF Len(text) > 10 THEN text ELSE DateStr(now) \o <<32>> \o text,
             Contains(text, <<46>>)) = <<>>

\* C21: a line whose first matching pattern gives a text that is no instant
\* still gives an entry, with that text as timestamp and no resolved
\* timestamp, also when a later pattern of the list matches a text that is
\* one; and no since_minutes window removes the entry: it is contributed iff
\* the level filter keeps it.
C21_UnconvertibleKeptUnresolved ==
    pc = "parse" /\ parsed = Len(log_files) =>
        \A s \in SourcesRead :
            LET lines == TailLimit(fs[s[2]].lines, request.tail_lines)
            IN \A n \in 1..Len(lines) :
                  LET line == Strip(lines[n])
                      text == FirstBracketText(line)
                      level_kept == \E b \in {LevelBranch(line)} :
                          \/ request.filter_level = LvAll
                          \/ Lower(request.filter_level)
                                = (IF b = 1 THEN LvError ELSE IF b = 2 THEN LvWarning
                                   ELSE IF b = 3 THEN LvSuccess ELSE LvInfo)
                      found == {e \in ContributionSet(s[1]) :
                                   e.raw_line = line /\ e.line_number = n}
                  IN text # <<>> /\ Unconvertible(text) =>
                        /\ level_kept <=> found # {}
                        /\ \A e \in found : e.timestamp = text /\ e.parsed_timestamp = <<>>

\* Under a window, the response holds the entry of a line whose date+time
\* text has month 13 and which ends with a time-only timestamp that is an
\* instant.
C21_Witness ==
    /\ Returned /\ request.since_minutes > 0
    /\ \E e \in EntrySet :
          /\ IsParsed(e)
          /\ StartsWith(e.raw_line, TokBadDate) /\ EndsWith(e.raw_line, TokTime)
          /\ e.timestamp = SubSeq(TokBadDate, 2, Len(TokBadDate) - 1)
          /\ e.parsed_timestamp = <<>>

\* A line of the shape of Scenario A: a date+time timestamp with fraction in
\* brackets at its start, a space, a success glyph (check mark, fire, floppy
\* disk), then text that holds no bracket and no error or warning marker.
IsScenarioA(line) ==
    /\ PatMatchAt(PatDateTimeFrac, line, 1)
    /\ Len(line) > Len(PatDateTimeFrac) + 2
    /\ line[Len(PatDateTimeFrac) + 1] = 32
    /\ line[Len(PatDateTimeFrac) + 2] \in {9989, 128293, 128190}
    /\ LET text == SubSeq(line, Len(PatDateTimeFrac) + 3, Len(line))
       IN /\ ~Contains(text, <<91>>)
          /\ ~HasErrorMarker(text) /\ ~HasWarningMarker(text)

\* C22: a line of the shape of Scenario A parses to level "success" with
\* contains_success true and contains_error false, its timestamp is what the
\* brackets hold, and its message holds neither the bracketed timestamp nor
\* a recognized prefix at its start.
C22_ScenarioA ==
    \A e \in ParsedContributed :
        IsScenarioA(e.raw_line) =>
            /\ e.level = LvSuccess
            /\ e.contains_success = TRUE
            /\ e.contains_error = FALSE
            /\ e.timestamp = SubSeq(e.raw_line, 2, Len(PatDateTimeFrac) - 1)
            /\ ~Contains(e.message, SubSeq(e.raw_line, 1, Len(PatDateTimeFrac)))
            /\ \A k \in 1..Len(prefixes_to_remove) :
                  ~StartsWith(Lower(e.message), prefixes_to_remove[k])

\* The line of Scenario A was parsed; its message is the glyph and the text.
C22_Witness ==
    \E e \in ParsedContributed :
        /\ e.raw_line = Strip(LnScenarioA)
        /\ e.message = SubSeq(Strip(LnScenarioA), Len(PatDateTimeFrac) + 2,
                              Len(Strip(LnScenarioA)))

\* C23: the line of Scenario B, alone in a readable file, is in the response
\* when since_minutes is 0 and filter_level is "all" or "error", with level
\* "error" and with no extracted and no resolved timestamp.
C23_ScenarioB ==
    /\ Returned /\ response.status = "success" /\ read_failed = {}
    /\ opened = {RenumberPath}
    /\ fs[RenumberPath].lines = <<LnScenarioB>>
    /\ request.tail_lines >= 1
    /\ request.since_minutes = 0 /\ request.filter_level \in {LvAll, LvError}
    => \E k \in 1..Len(Entries) :
          /\ Entries[k].raw_line = Strip(LnScenarioB)
          /\ Entries[k].level = LvError
          /\ Entries[k].timestamp = <<>>
          /\ Entries[k].parsed_timestamp = <<>>

\* The line of Scenario B was returned under the filter_level "error".
C23_Witness ==
    /\ Returned /\ request.filter_level = LvError /\ request.since_minutes = 0
    /\ \E e \in EntrySet : IsParsed(e) /\ e.raw_line = Strip(LnScenarioB)

\* C24: in a success response renumber_log_exists is true iff the renumber
\* file is on disk and tycoon_log_exists is true iff a tycoon log is on disk,
\* whatever log_type was requested.
C24_ExistenceBooleans ==
    Returned /\ response.status = "success" =>
        /\ response.monitoring_info.renumber_log_exists <=> (RenumberPath \in DOMAIN fs)
        /\ response.monitoring_info.tycoon_log_exists <=> (TycoonLogsOnDisk # {})

\* The paths the resolution looks at for a log_type: tycoon_dir for the
\* renumber source, workspace_dir for the tycoon source.
SearchedFor(log_type) ==
    (IF log_type \in {"all", "renumber"} THEN <<tycoon_dir>> ELSE <<>>)
        \o (IF log_type \in {"all", "tycoon"} THEN <<workspace_dir>> ELSE <<>>)

\* C25: a call whose resolution finds no file returns "no_logs_found", has
\* opened no file, and lists as searched_paths the paths searched for the
\* requested log_type, and no path of a source the log_type leaves out.
C25_SearchedPathsOfSelector ==
    Returned /\ response.status = "no_logs_found" =>
        /\ opened = {}
        /\ response.searched_paths = SearchedFor(request.log_type)

\* The line without the n characters from place i on.
CutOut(line, i, n) == SubSeq(line, 1, i - 1) \o SubSeq(line, i + n, Len(line))

\* C26: the message of a parsed entry is its raw line with the one extracted
\* bracketed timestamp cut out and a recognized leading prefix removed,
\* trimmed; a further bracketed timestamp of the line stays in the message.
C26_OnlyExtractedTimestampRemoved ==
    \A e \in ParsedContributed :
        LET line == e.raw_line
            matching == {p \in 1..4 : MatchesOf(p, line) # {}}
        IN IF matching = {} THEN e.message = StripPrefixes(line, 1)
           ELSE \E p \in matching :
                    /\ \A q \in matching : p <= q
                    /\ \E i \in MatchesOf(p, line) :
                          /\ \A j \in MatchesOf(p, line) : i <= j
                          /\ e.message =
                                StripPrefixes(
                                    Strip(CutOut(line, i, Len(timestamp_patterns[p]))), 1)

\* The path the call opened for a source.
OpenedFor(source) ==
    IF source = "renumber" THEN opened \cap {RenumberPath} ELSE opened \cap WorkspacePaths

\* C27: an entry of the response parsed from a line comes from one of the
\* last tail_lines physical lines of its file: a line before those is never
\* returned, whatever the filters let through and however few entries the
\* response holds.
C27_OnlyLastLinesReturned ==
    Returned /\ response.status = "success" =>
        \A e \in EntrySet :
            IsParsed(e) =>
                \E path \in OpenedFor(e.source) \cap DOMAIN fs :
                    LET last == LastLines(fs[path].lines, request.tail_lines)
                    IN \E n \in 1..Len(last) : Strip(last[n]) = e.raw_line

\* C28: when more entries were merged than tail_lines (tail_lines >= 1), the
\* call returns the last tail_lines elements of the merged list sorted by
\* the extracted timestamp text; as the empty text sorts first, no entry with
\* a timestamp text is dropped while one without is kept.
C28_LastOfSortedMerge ==
    [][ /\ pc = "parse" /\ pc' = "done"
        /\ request.tail_lines >= 1 /\ Len(all_entries) > request.tail_lines
        => LET sorted == SortByTimestamp(all_entries)
               cut == Len(sorted) - request.tail_lines
           IN /\ response'.entries = SubSeq(sorted, cut + 1, Len(sorted))
              /\ \A i \in 1..cut :
                    \A j \in 1..Len(response'.entries) :
                        sorted[i].timestamp # <<>> => response'.entries[j].timestamp # <<>>
      ]_vars

\* Four entries were merged under tail_lines 2, one without timestamp from
\* each file: the two with a timestamp were returned.
C28_Witness ==
    /\ Returned /\ request.tail_lines = 2
    /\ fs[RenumberPath].lines = <<LnPlain, LnMorn>>
    /\ fs[PathJoin(workspace_dir, NameB)].lines = <<LnScenarioB, LnLate>>
    /\ [k \in 1..Len(Entries) |-> Entries[k].raw_line] = <<Strip(LnMorn), Strip(LnLate)>>

\* C29: of two returned entries with equal sort keys, those of one source
\* stand in the order of their lines in the file, and those of different
\* sources in the order the sources were resolved in, renumber first.
C29_StableMerge ==
    Returned /\ response.status = "success" =>
        \A i, j \in 1..Len(Entries) :
            i < j /\ SortKey(Entries[i]) = SortKey(Entries[j]) =>
                IF Entries[i].source = Entries[j].source
                THEN IsParsed(Entries[i]) /\ IsParsed(Entries[j])
                        => Entries[i].line_number < Entries[j].line_number
                ELSE Entries[i].source = "renumber"

\* Two lines of the renumber file with the same timestamp text were returned.
C29_Witness ==
    /\ Returned /\ Len(Entries) = 2
    /\ Entries[1].source = "renumber" /\ Entries[2].source = "renumber"
    /\ Entries[1].timestamp = Entries[2].timestamp /\ Entries[1].timestamp # <<>>
    /\ Entries[1].raw_line # Entries[2].raw_line

\* C30: every response has status "success", "no_logs_found" or "error";
\* with "success", total_entries is the length of entries and filter_applied
\* is the filter_level asked for; with the two others, entries is empty.
C30_ResponseShape ==
    Returned =>
        /\ response.status \in {"success", "no_logs_found", "error"}
        /\ response.status = "success" =>
              /\ response.total_entries = Len(response.entries)
              /\ response.filter_applied = request.filter_level
        /\ response.status \in {"no_logs_found", "error"} => response.entries = <<>>

\* A success response holding one entry under tail_lines 2.
C30_Witness ==
    /\ Returned /\ response.status = "success"
    /\ request.tail_lines = 2 /\ Len(Entries) = 1 /\ response.total_entries = 1

=============================================================================
